---------------------------- MODULE Spec2Model ----------------------------
(***************************************************************************)
(* Tenant isolation core of the multi-tenant SaaS sample:                  *)
(*   - the API Gateway Lambda authorizer (tenant_authorizer.lambda_handler,*)
(*     authorizer_layer.validateJWT, assume_role_layer.assume_role and the *)
(*     two policy builders);                                               *)
(*   - the SQL tenant filter (sql_modifier.append_tenant_filter).          *)
(* Strings that the code takes apart (queries, tenant ids put into         *)
(* queries) are sequences of one-character strings; opaque strings are     *)
(* TLA+ strings.                                                           *)
(***************************************************************************)
EXTENDS Integers, Sequences, FiniteSets, TLC

VARIABLES
    pc,                 \* position of the authorizer invocation in lambda_handler
    event,              \* the Lambda event of the invocation
    keys,               \* lambda_handler local: the downloaded JWKS 'keys' list
    response,           \* lambda_handler local: what validateJWT returned
    config,             \* lambda_handler locals api_key, tenant_name, knowledge_base_id, ...
    session_parameters, \* lambda_handler local: what assume_role returned
    result,             \* how the invocation ended: a returned policy or a raised exception
    calls,              \* network requests made by the invocation, in order
    log,                \* what the invocation has logged or printed, in order
    stsSerial,          \* number of credentials the STS has issued so far
    control_plane_gw_url, \* module global read from CP_API_GW_URL
    time_now,           \* what time.time() returned in validateJWT
    sql,                \* append_tenant_filter argument: the query
    tenant_id,          \* append_tenant_filter argument: the tenant id
    modified_sql,       \* what append_tenant_filter returned
    modified_twice,     \* what append_tenant_filter returned for modified_sql
    tags_a,             \* assume_role argument request_tags of one call
    tags_b,             \* assume_role argument request_tags of another call
    session_names,      \* the role session names assume_role derived for the two calls
    gateway_request,    \* gateway interceptor: event['mcp']['gatewayRequest']
    transformed,        \* gateway interceptor: what lambda_handler returned
    athena_started,     \* log query handler: the start_query_execution calls, in order
    handler_return,     \* log query handler: what handler returned
    OpsContext,         \* agent: the class attributes of OpsContext
    ctx,                \* agent: the context variables of the request being served
    invocations,        \* agent: the Authorization headers of the invocations so far
    access_token,       \* agent: what log_agent_tool read as the authorization header
    bound_params,       \* WrappedTool._bound_params
    delegate_calls,     \* WrappedTool: the stream calls passed to the delegate, in order
    bind_result         \* WrappedTool: how the last bind_param call ended

authvars == <<pc, event, keys, response, config, session_parameters, result, calls, log, stsSerial,
              control_plane_gw_url, time_now>>
sqlvars == <<sql, tenant_id, modified_sql, modified_twice>>
tagvars == <<tags_a, tags_b, session_names>>
gwvars == <<gateway_request, transformed, athena_started, handler_return>>
opsvars == <<OpsContext, ctx, invocations, access_token>>
toolvars == <<bound_params, delegate_calls, bind_result>>
vars == <<pc, event, keys, response, config, session_parameters, result, calls, log, stsSerial,
          control_plane_gw_url, time_now,
          sql, tenant_id, modified_sql, modified_twice,
          tags_a, tags_b, session_names,
          gateway_request, transformed, athena_started, handler_return,
          OpsContext, ctx, invocations, access_token,
          bound_params, delegate_calls, bind_result>>

(***************************************************************************)
(* Bounds of the model.                                                    *)
(***************************************************************************)
MaxIssued == 2      \* credentials the STS issues in one behaviour
MaxPieces == 3      \* pieces a caller's query is put together from
MaxTags == 2        \* tags of one request tag list
MaxInvocations == 3 \* agent invocations of one process
MaxStreams == 2     \* stream calls on one wrapped tool

(***************************************************************************)
(* Values of the environment.                                              *)
(***************************************************************************)
None == [py |-> "None"]        \* Python's None
Unbound == [py |-> "unbound"]  \* a local variable that was never assigned
NotCalled == <<"<not called>">> \* modified_sql before append_tenant_filter has returned
Absent == "<absent>"    \* a header or claim the token does not carry

appclient_id == "app-client"
assume_role_arn == "arn:aws:iam::111122223333:role/abac-role"

MethodArns == {"arn:aws:execute-api:r:a:api/prod/POST/invoke", "arn:aws:execute-api:r:a:api/prod/GET/logs"}

\* The clock read by time.time() and the exp claim, in seconds.
Times == {5, 6}

\* JWKS entries: key id and public key material.
Key1 == [kid |-> "k1", alg |-> "RS256", n |-> "pub1"]
Key2 == [kid |-> "k2", alg |-> "RS256", n |-> "pub2"]
KeySets == {<<>>, <<Key1>>, <<Key1, Key2>>}

\* Who produced the signature over header.payload: the holder of the private
\* key of pub1 or pub2, or somebody else.
Signers == {"pub1", "pub2", "evil"}

TenantIdClaims == {"t1", "t2"}

\* The claims of a token; custom:tenantId may be missing.
ClaimsWithTenant ==
    {[exp |-> e, aud |-> a] @@ ("custom:tenantId" :> t) :
        <<e, a, t>> \in Times \X {appclient_id, "other-client"} \X TenantIdClaims}
ClaimsNoTenant ==
    {[exp |-> e, aud |-> a] : <<e, a>> \in Times \X {appclient_id, "other-client"}}
ClaimSets == ClaimsWithTenant \cup ClaimsNoTenant

\* A well-formed JWT: header, payload and signature.
Tokens ==
    {[headers |-> [kid |-> k, alg |-> g], claims |-> c, signedBy |-> s] :
        <<k, g, c, s>> \in {"k1", "k2", "k9", Absent} \X {"RS256", "none"} \X ClaimSets \X Signers}

\* What the event carries as authorization.
\*   missing   : neither authorizationToken nor headers.Authorization
\*   notBearer : a value whose first word is not 'Bearer'
\*   garbled   : 'Bearer x' where x is not a JWT
AuthValues == {[form |-> "missing"], [form |-> "notBearer"], [form |-> "garbled"]}
              \cup {[form |-> "bearer", token |-> t] : t \in Tokens}

Events == {[methodArn |-> m, auth |-> a] : <<m, a>> \in MethodArns \X AuthValues}

(***************************************************************************)
(* authorizer_layer.validateJWT                                            *)
(***************************************************************************)
\* The value validateJWT returns: Python's False or the claims, with the
\* source line of the return statement that produced it.
ReturnFalse(l) == [returned |-> "False", claims |-> None, line |-> l]
ReturnClaims(c, l) == [returned |-> "claims", claims |-> c, line |-> l]

\* key_index as it would be if a kid that is not found fell back to the
\* first key of the set.
key_index_first(kid, ks) ==
    IF \E i \in 1..Len(ks) : ks[i].kid = kid
    THEN CHOOSE i \in 1..Len(ks) :
            /\ ks[i].kid = kid
            /\ \A j \in 1..(i - 1) : ks[j].kid # kid
    ELSE IF ks # <<>> THEN 1 ELSE -1

\* for i, key in enumerate(keys): if kid == key['kid']: key_index = i; break
key_index(kid, ks) ==
    IF \E i \in 1..Len(ks) : ks[i].kid = kid
    THEN CHOOSE i \in 1..Len(ks) :
            /\ ks[i].kid = kid
            /\ \A j \in 1..(i - 1) : ks[j].kid # kid
    ELSE -1

\* verify as it would be if the signature were not checked.
verify_accepts_all(public_key, token) == TRUE

\* public_key = jwk.construct(keys[key_index]) takes the algorithm from the
\* JWKS entry; public_key.verify(message, decoded_signature) holds when the
\* signature over header.payload was made with the private key of this
\* public key.  The token header's alg is not read.
verify(public_key, token) == token.signedBy = public_key.n

\* is_expired as it would be with a grace window of one second.
is_expired_grace(now, exp) == now > exp + 1

\* time.time() > claims['exp']
is_expired(now, exp) == now > exp

\* validateJWT as it would be without the audience check.
validateJWT_no_audience(token, app_client_id, ks, now) ==
    IF token.headers.kid = Absent
    THEN ReturnFalse(76)
    ELSE LET idx == key_index(token.headers.kid, ks) IN
         IF idx = -1 THEN ReturnFalse(41)
         ELSE IF ~verify(ks[idx], token) THEN ReturnFalse(55)
         ELSE IF is_expired(now, token.claims.exp) THEN ReturnFalse(65)
         ELSE ReturnClaims(token.claims, 73)

validateJWT(token, app_client_id, ks, now) ==
    IF token.headers.kid = Absent
    THEN ReturnFalse(76)                       \* headers['kid'] raises KeyError
    ELSE LET idx == key_index(token.headers.kid, ks) IN
         IF idx = -1 THEN ReturnFalse(41)
         ELSE IF ~verify(ks[idx], token) THEN ReturnFalse(55)
         ELSE IF is_expired(now, token.claims.exp) THEN ReturnFalse(65)
         ELSE IF token.claims.aud # app_client_id THEN ReturnFalse(70)
         ELSE ReturnClaims(token.claims, 73)

(***************************************************************************)
(* authorizer_layer.create_auth_success_policy / create_auth_denied_policy *)
(***************************************************************************)
Statement(effect, method_arn) ==
    [Action |-> "execute-api:Invoke", Effect |-> effect, Resource |-> method_arn]

create_auth_success_policy(method_arn, tid, tenant_name, knowledge_base_id, aws_access_key_id, aws_secret_access_key, aws_session_token, api_key) ==
    [principalId |-> tid,
     policyDocument |-> [Version |-> "2012-10-17",
                         Statement |-> <<Statement("Allow", method_arn)>>],
     context |-> [knowledge_base_id |-> knowledge_base_id,
                  aws_access_key_id |-> aws_access_key_id,
                  aws_secret_access_key |-> aws_secret_access_key,
                  aws_session_token |-> aws_session_token,
                  tenant_name |-> tenant_name],
     usageIdentifierKey |-> api_key]

\* create_auth_denied_policy as it would be if the deny decision carried a
\* principal and a context map.
create_auth_denied_policy_with_context(method_arn) ==
    [principalId |-> "user",
     policyDocument |-> [Version |-> "2012-10-17",
                         Statement |-> <<Statement("Deny", method_arn)>>],
     context |-> [message |-> "Unauthorized"]]

create_auth_denied_policy(method_arn) ==
    [principalId |-> "",
     policyDocument |-> [Version |-> "2012-10-17",
                         Statement |-> <<Statement("Deny", method_arn)>>]]

Effect(policy) == policy.policyDocument.Statement[1].Effect

(***************************************************************************)
(* assume_role_layer.assume_role                                           *)
(***************************************************************************)
\* tags_str = "-".join([f"{name}={value}" for name, value in request_tags])
\* Names and values are sequences of symbols (characters, or one opaque
\* string); the f-string and the join concatenate them.
RECURSIVE tags_str(_)
tags_str(request_tags) ==
    IF request_tags = <<>> THEN <<>>
    ELSE LET t == request_tags[1]
             rest == Tail(request_tags) IN
         t[1] \o <<"=">> \o t[2] \o (IF rest = <<>> THEN <<>> ELSE <<"-">> \o tags_str(rest))

\* hashlib.sha256(tags_str.encode()).hexdigest()[:32]; the hash is taken to
\* be free of collisions: equal names come from equal strings only.
role_session_name(request_tags) == <<"sha256", tags_str(request_tags)>>

\* The sts.assume_role request that assume_role sends.
AssumeRoleRequest(access_role_arn, request_tags, duration_sec) ==
    [to |-> "sts",
     RoleArn |-> access_role_arn,
     DurationSeconds |-> duration_sec,
     RoleSessionName |-> role_session_name(request_tags),
     Tags |-> [i \in 1..Len(request_tags) |->
                  [Key |-> request_tags[i][1], Value |-> request_tags[i][2]]]]

\* The n-th credentials the STS issues.
Credentials(n) ==
    [AccessKeyId |-> <<"ASIA", n>>,
     SecretAccessKey |-> <<"secret", n>>,
     SessionToken |-> <<"token", n>>]

SessionParameters(aws_access_key_id, aws_secret_access_key, aws_session_token) ==
    [aws_access_key_id |-> aws_access_key_id,
     aws_secret_access_key |-> aws_secret_access_key,
     aws_session_token |-> aws_session_token]

\* assume_role's failure value as it would be if it fell back to the
\* credentials of the function's own, unscoped role.
assume_role_fallback == SessionParameters(<<"ASIA", 0>>, <<"secret", 0>>, <<"token", 0>>)

\* What assume_role returns when sts.assume_role raised (except: return None).
assume_role_failed == None

\* What assume_role returns, given the answer of sts.assume_role.
assume_role(assume_role_response) ==
    IF assume_role_response.raised THEN assume_role_failed
    ELSE SessionParameters(assume_role_response.Credentials.AccessKeyId,
                           assume_role_response.Credentials.SecretAccessKey,
                           assume_role_response.Credentials.SessionToken)

(***************************************************************************)
(* The control plane's tenant configuration and its answers.               *)
(***************************************************************************)
ConfigKeys == {"apiKey", "tenantName", "knowledgeBaseId", "inputTokens", "outputTokens"}

\* The configuration the control plane holds for tenant t.
TenantConfig(t) ==
    [apiKey |-> [api_key_of |-> t],
     tenantName |-> [name_of |-> t],
     knowledgeBaseId |-> [kb_of |-> t],
     inputTokens |-> [input_tokens_of |-> t],
     outputTokens |-> [output_tokens_of |-> t]]

\* Bodies of an answer to GET tenant-config?tenantId=t:
\*   not-utf8 : bytes that are not UTF-8
\*   not-json : text that is not JSON
\*   json     : a JSON object with the keys 'has' of the tenant's configuration
Bodies ==
    {[kind |-> "not-utf8"], [kind |-> "not-json"]}
    \cup {[kind |-> "json", has |-> h] : h \in SUBSET ConfigKeys}

\* requests.get either raises or returns a response.
ConfigAnswers ==
    {[raised |-> TRUE]}
    \cup {[raised |-> FALSE, status_code |-> c, content |-> b] :
            <<c, b>> \in {200, 404, 500} \X Bodies}

\* urlparse(url).scheme in ['http', 'https']
is_safe_url(url) == url.scheme \in {"http", "https"}

ControlPlaneUrls == {[scheme |-> "https", rest |-> "cp.example/"],
                     [scheme |-> "http", rest |-> "cp.example/"],
                     [scheme |-> "ftp", rest |-> "cp.example/"]}

keys_url == [scheme |-> "https", rest |-> "cognito-idp.region.amazonaws.com/pool/.well-known/jwks.json"]

(***************************************************************************)
(* Strings that are taken apart: sequences of one-character strings.       *)
(***************************************************************************)
LowerCase == <<"a", "b", "c", "d", "e", "f", "g", "h", "i", "j", "k", "l", "m", "n", "o", "p", "q", "r", "s", "t", "u", "v", "w", "x", "y", "z">>
UpperCase == <<"A", "B", "C", "D", "E", "F", "G", "H", "I", "J", "K", "L", "M", "N", "O", "P", "Q", "R", "S", "T", "U", "V", "W", "X", "Y", "Z">>
Digits == {"0", "1", "2", "3", "4", "5", "6", "7", "8", "9"}

Range(f) == {f[i] : i \in DOMAIN f}

\* str.strip() and the regular expression class \s.
IsSpace(c) == c \in {" ", "\t", "\n", "\r"}

\* The regular expression class \w.
IsWord(c) == c \in Range(LowerCase) \cup Range(UpperCase) \cup Digits \cup {"_"}

\* Case folding of re.IGNORECASE.
upper(c) ==
    IF c \in Range(LowerCase)
    THEN UpperCase[CHOOSE i \in 1..Len(LowerCase) : LowerCase[i] = c]
    ELSE c

\* str.strip()
strip(s) ==
    LET inner == {i \in 1..Len(s) : ~IsSpace(s[i])} IN
    IF inner = {} THEN <<>>
    ELSE LET first == CHOOSE i \in inner : \A j \in inner : i <= j
             last == CHOOSE i \in inner : \A j \in inner : j <= i
         IN SubSeq(s, first, last)

\* str.endswith(c) for a one-character c
endswith(s, c) == Len(s) > 0 /\ s[Len(s)] = c

\* Patterns: a sequence of upper-case letters and of WS, which stands for \s+.
WS == "\\s+"

\* The pattern from element k on matches s at (1-based) position i.
RECURSIVE MatchFrom(_, _, _, _)
MatchFrom(s, i, pattern, k) ==
    IF k > Len(pattern) THEN TRUE
    ELSE IF i > Len(s) THEN FALSE
    ELSE IF pattern[k] = WS
    THEN IsSpace(s[i]) /\ (MatchFrom(s, i + 1, pattern, k) \/ MatchFrom(s, i + 1, pattern, k + 1))
    ELSE upper(s[i]) = pattern[k] /\ MatchFrom(s, i + 1, pattern, k + 1)

\* re.search(pattern, s, re.IGNORECASE): the 0-based start of the leftmost
\* match, or -1 for no match (None).
search(pattern, s) ==
    LET starts == {i \in 1..Len(s) : MatchFrom(s, i, pattern, 1)} IN
    IF starts = {} THEN -1
    ELSE (CHOOSE i \in starts : \A j \in starts : i <= j) - 1

GROUP_BY == <<WS, "G", "R", "O", "U", "P", WS, "B", "Y", WS>>   \* r'\s+GROUP\s+BY\s+'
ORDER_BY == <<WS, "O", "R", "D", "E", "R", WS, "B", "Y", WS>>   \* r'\s+ORDER\s+BY\s+'
LIMIT == <<WS, "L", "I", "M", "I", "T", WS>>                    \* r'\s+LIMIT\s+'
WHERE == <<"W", "H", "E", "R", "E">>

\* The word (upper-case letters) stands at position i of s, between two \b.
WordAt(s, i, word) ==
    /\ i + Len(word) - 1 <= Len(s)
    /\ \A k \in 1..Len(word) : upper(s[i + k - 1]) = word[k]
    /\ i = 1 \/ ~IsWord(s[i - 1])
    /\ i + Len(word) > Len(s) \/ ~IsWord(s[i + Len(word)])

\* re.search(r'\bWHERE\b', main_query, re.IGNORECASE) is not None
has_where(main_query) == \E i \in 1..Len(main_query) : WordAt(main_query, i, WHERE)

min(a, b) == IF a <= b THEN a ELSE b

\* Lines 27-33.
insert_pos(s) ==
    LET group_by_match == search(GROUP_BY, s)
        order_by_match == search(ORDER_BY, s)
        limit_match == search(LIMIT, s)
        p0 == Len(s)
        p1 == IF group_by_match # -1 THEN min(p0, group_by_match) ELSE p0
        p2 == IF order_by_match # -1 THEN min(p1, order_by_match) ELSE p1
    IN IF limit_match # -1 THEN min(p2, limit_match) ELSE p2

AND_TENANT == <<" ", "A", "N", "D", " ", "t", "e", "n", "a", "n", "t", "_", "i", "d", " ", "=", " ", "'">>
WHERE_TENANT == <<" ", "W", "H", "E", "R", "E", " ", "t", "e", "n", "a", "n", "t", "_", "i", "d", " ", "=", " ", "'">>

\* with_filter as it would be without the test for an existing WHERE.
with_filter_always_where(main_query, tid) ==
    main_query \o WHERE_TENANT \o tid \o <<"'">>

\* Lines 40-45: f"{main_query} AND tenant_id = '{tenant_id}'" or
\* f"{main_query} WHERE tenant_id = '{tenant_id}'".
with_filter(main_query, tid) ==
    IF has_where(main_query)
    THEN main_query \o AND_TENANT \o tid \o <<"'">>
    ELSE main_query \o WHERE_TENANT \o tid \o <<"'">>

(***************************************************************************)
(* sql_modifier.append_tenant_filter                                       *)
(***************************************************************************)
\* append_tenant_filter as it would be if the query were trimmed before the
\* tenant id is looked at.
append_tenant_filter_trim_first(q, tid) ==
    LET s0 == strip(q)
        s == IF endswith(s0, ";") THEN strip(SubSeq(s0, 1, Len(s0) - 1)) ELSE s0
    IN IF tid = <<>> THEN s
       ELSE LET pos == insert_pos(s)
                main_query == strip(SubSeq(s, 1, pos))
                trailing_clauses == strip(SubSeq(s, pos + 1, Len(s)))
                filtered == with_filter(main_query, tid)
            IN IF trailing_clauses # <<>>
               THEN filtered \o <<" ">> \o trailing_clauses
               ELSE filtered

append_tenant_filter(q, tid) ==
    IF tid = <<>> THEN q
    ELSE LET s0 == strip(q)
             s == IF endswith(s0, ";") THEN strip(SubSeq(s0, 1, Len(s0) - 1)) ELSE s0
             pos == insert_pos(s)
             main_query == strip(SubSeq(s, 1, pos))
             trailing_clauses == strip(SubSeq(s, pos + 1, Len(s)))
             filtered == with_filter(main_query, tid)
         IN IF trailing_clauses # <<>>
            THEN filtered \o <<" ">> \o trailing_clauses
            ELSE filtered

(***************************************************************************)
(* The queries and tenant ids the filter is applied to.                    *)
(***************************************************************************)
Pieces == {
    <<"S", "E", "L", "E", "C", "T", " ", "a", " ", "F", "R", "O", "M", " ", "t">>,
    <<" ", "W", "H", "E", "R", "E", " ", "p">>,
    <<" ", "W", "H", "E", "R", "E", " ", "(", "q", ")">>,
    <<" ", "O", "R", " ", "q">>,
    <<" ", "G", "R", "O", "U", "P", " ", "B", "Y", " ", "a">>,
    <<" ", "o", "r", "d", "e", "r", " ", "b", "y", " ", "a">>,
    <<"L", "I", "M", "I", "T", " ", "5">>,
    <<" ">>,
    <<";">>}

RECURSIVE Concat(_)
Concat(ps) == IF ps = <<>> THEN <<>> ELSE ps[1] \o Concat(Tail(ps))

\* Every query made of at most MaxPieces pieces.
Queries == {Concat(ps) : ps \in UNION {[1..n -> Pieces] : n \in 0..MaxPieces}}

\* The two queries of the documented examples, for tenant acme.
Example1 == <<"S", "E", "L", "E", "C", "T", " ", "*", " ", "F", "R", "O", "M", " ", "l", "o", "g", "s">>
Example2 == <<"S", "E", "L", "E", "C", "T", " ", "*", " ", "F", "R", "O", "M", " ", "l", "o", "g", "s", " ", "W", "H", "E", "R", "E", " ", "l", "e", "v", "e", "l", "=", "'", "E", "R", "R", "O", "R", "'", " ", "O", "R", "D", "E", "R", " ", "B", "Y", " ", "t", "s", " ", "D", "E", "S", "C", " ", "L", "I", "M", "I", "T", " ", "1", "0">>
ExampleQueries == {Example1, Example2}
Acme == <<"a", "c", "m", "e">>

\* A query whose condition ends in a column named limit.
LimitColumnQuery == <<"S", "E", "L", "E", "C", "T", " ", "a", " ", "F", "R", "O", "M", " ", "t", " ", "W", "H", "E", "R", "E", " ", "x", " ", ">", " ", "l", "i", "m", "i", "t">>

\* Tenant ids that hold a single quote.
QuotedTenantIds == {<<"x", "'", " ", "O", "R", " ", "'", "1", "'", "=", "'", "1">>, <<"o", "'", "n", "e", "i", "l">>}

\* The tenant ids; the empty one stands for a missing tenant id too.
TenantIds == {<<>>, <<"a">>, <<"b">>}

(***************************************************************************)
(* tenant_authorizer.lambda_handler, one action per network call.          *)
(***************************************************************************)
Running == [kind |-> "running"]
Raise(exception, l) == [kind |-> "raise", exception |-> exception, line |-> l]
Return(policy) == [kind |-> "return", policy |-> policy]

NoLocals == [api_key |-> Unbound, tenant_name |-> Unbound, knowledge_base_id |-> Unbound,
             input_tokens |-> Unbound, output_tokens |-> Unbound]

\* Lines 82-93: the locals the try block has assigned when it is left.  The
\* assignments run in source order and stop at the first missing key
\* (KeyError) or before the first one (UnicodeDecodeError); both are caught.
config_locals(content, t) ==
    LET cfg == TenantConfig(t)
        has(k) == content.kind = "json" /\ k \in content.has
        b1 == has("apiKey")
        b2 == b1 /\ has("tenantName")
        b3 == b2 /\ has("knowledgeBaseId")
        b4 == b3 /\ has("inputTokens")
        b5 == b4 /\ has("outputTokens")
    IN [api_key |-> IF b1 THEN cfg.apiKey ELSE Unbound,
        tenant_name |-> IF b2 THEN cfg.tenantName ELSE Unbound,
        knowledge_base_id |-> IF b3 THEN cfg.knowledgeBaseId ELSE Unbound,
        input_tokens |-> IF b4 THEN cfg.inputTokens ELSE Unbound,
        output_tokens |-> IF b5 THEN cfg.outputTokens ELSE Unbound]

\* request_tags as it would be with a hard-coded tenant id.
request_tags_hardcoded(knowledge_base_id, tid) ==
    <<<<<<"KnowledgeBaseId">>, <<knowledge_base_id>>>>, <<<<"TenantID">>, <<"t1">>>>>>

\* Line 101.
request_tags(knowledge_base_id, tid) ==
    <<<<<<"KnowledgeBaseId">>, <<knowledge_base_id>>>>, <<<<"TenantID">>, <<tid>>>>>>

\* One logger call (level INFO, ERROR, DEBUG) or print (level PRINT) of the
\* file at the line, with the object or text it emits.
Log(level, file, line, object) == [level |-> level, file |-> file, line |-> line, object |-> object]
Text(t) == [text |-> t]

\* authorizer_layer.py lines 40, 54, 57, 69, 72, 75: what validateJWT logs on
\* its way to the return statement of r.
validateJWT_log(r) ==
    LET verified == Log("INFO", "authorizer_layer", 57, Text("Signature successfully verified")) IN
    IF r.line = 76 THEN <<Log("ERROR", "authorizer_layer", 75, Text("Error validating JWT"))>>
    ELSE IF r.line = 41 THEN <<Log("INFO", "authorizer_layer", 40, Text("Public key not found in jwks.json"))>>
    ELSE IF r.line = 55 THEN <<Log("INFO", "authorizer_layer", 54, Text("Signature verification failed"))>>
    ELSE IF r.line = 65 THEN <<verified>>
    ELSE IF r.line = 70
    THEN <<verified, Log("INFO", "authorizer_layer", 69, Text("Token was not issued for this audience"))>>
    ELSE <<verified, Log("INFO", "authorizer_layer", 72, r.claims)>>

\* assume_role_layer.py lines 18, 34, 37: what assume_role logs.
assume_role_log(access_role_arn, tags, assume_role_response) ==
    <<Log("INFO", "assume_role_layer", 18,
          [text |-> "Trying to assume role ARN", arn |-> access_role_arn, tags |-> tags]),
      IF assume_role_response.raised
      THEN Log("ERROR", "assume_role_layer", 34, Text("exception"))
      ELSE Log("INFO", "assume_role_layer", 37,
               [text |-> "Assumed role ARN", arn |-> access_role_arn])>>

\* Lines 37-59: read the event, take the token after 'Bearer', decode the
\* unverified claims, build the JWKS url.
Invoke(ev) ==
    /\ pc = "idle"
    /\ stsSerial < MaxIssued
    /\ event' = ev
    /\ IF ev.auth.form = "missing"
       THEN /\ result' = Raise("Exception", 46)
            /\ pc' = "done"
       ELSE IF ev.auth.form = "notBearer"
       THEN /\ result' = Raise("Exception", 50)
            /\ pc' = "done"
       ELSE IF ev.auth.form = "garbled"
       THEN /\ result' = Raise("JWTError", 54)
            /\ pc' = "done"
       ELSE IF ~is_safe_url(keys_url)
       THEN /\ result' = Raise("ValueError", 63)
            /\ pc' = "done"
       ELSE /\ result' = Running
            /\ pc' = "fetch_keys"
    /\ keys' = None
    /\ response' = None
    /\ config' = NoLocals
    /\ session_parameters' = Unbound
    /\ calls' = <<>>
    /\ log' = IF ev.auth.form # "bearer" THEN <<>>
              ELSE <<Log("INFO", "tenant_authorizer", 55, ev.auth.token.claims)>>
                   \o (IF is_safe_url(keys_url) THEN <<>>
                       ELSE <<Log("ERROR", "tenant_authorizer", 62, Text("Unsafe URL scheme detected"))>>)
    /\ time_now' = 0
    /\ UNCHANGED <<stsSerial, control_plane_gw_url, sqlvars, tagvars, gwvars, opsvars, toolvars>>

\* Lines 60-77: the JWKS answer arrives; validate the token against it,
\* deny when validateJWT returned False, else build the tenant-config url.
FetchKeys(answer, t) ==
    /\ pc = "fetch_keys"
    /\ calls' = Append(calls, [to |-> "jwks", url |-> keys_url])
    /\ time_now' = IF ~answer.raised /\ answer.json THEN t ELSE time_now
    /\ IF answer.raised
       THEN /\ result' = Raise("RequestException", 60)
            /\ pc' = "done"
            /\ UNCHANGED <<keys, response, log>>
       ELSE IF ~answer.json
       THEN /\ result' = Raise("JSONDecodeError", 64)
            /\ pc' = "done"
            /\ UNCHANGED <<keys, response, log>>
       ELSE LET r == validateJWT(event.auth.token, appclient_id, answer.keys, t) IN
            /\ keys' = answer.keys
            /\ response' = r
            /\ log' = log \o validateJWT_log(r)
                          \o <<Log("INFO", "tenant_authorizer", 68,
                                   IF r.returned = "False" THEN [py |-> "False"] ELSE r.claims)>>
                          \o (IF r.returned = "False"
                              THEN <<Log("ERROR", "tenant_authorizer", 72, Text("Unauthorized"))>>
                              ELSE IF "custom:tenantId" \in DOMAIN r.claims
                                      /\ ~is_safe_url(control_plane_gw_url)
                              THEN <<Log("ERROR", "tenant_authorizer", 80, Text("Unsafe URL scheme detected"))>>
                              ELSE <<>>)
            /\ IF r.returned = "False"
               THEN /\ result' = Return(create_auth_denied_policy(event.methodArn))
                    /\ pc' = "done"
               ELSE IF "custom:tenantId" \notin DOMAIN r.claims
               THEN /\ result' = Raise("KeyError", 75)
                    /\ pc' = "done"
               ELSE IF ~is_safe_url(control_plane_gw_url)
               THEN /\ result' = Raise("ValueError", 81)
                    /\ pc' = "done"
               ELSE /\ result' = Running
                    /\ pc' = "lookup"
    /\ UNCHANGED <<event, config, session_parameters, stsSerial, control_plane_gw_url, sqlvars, tagvars, gwvars, opsvars, toolvars>>

JwksAnswers ==
    {[raised |-> TRUE], [raised |-> FALSE, json |-> FALSE]}
    \cup {[raised |-> FALSE, json |-> TRUE, keys |-> ks] : ks \in KeySets}

\* Lines 78-101: the tenant-config answer arrives; read the configuration
\* into locals and build the request tags.
LookupConfig(answer) ==
    /\ pc = "lookup"
    /\ LET tid == response.claims["custom:tenantId"] IN
       /\ calls' = Append(calls, [to |-> "tenant-config", url |-> control_plane_gw_url,
                                  tenantId |-> tid, answer |-> answer])
       /\ IF answer.raised
          THEN /\ result' = Raise("RequestException", 78)
               /\ pc' = "done"
               /\ UNCHANGED <<config, log>>
          ELSE IF answer.content.kind = "not-json"
          THEN /\ result' = Raise("JSONDecodeError", 84)
               /\ pc' = "done"
               /\ UNCHANGED <<config, log>>
          ELSE LET locals == config_locals(answer.content, tid) IN
               /\ config' = locals
               /\ log' = log \o
                    (IF answer.content.kind = "not-utf8"
                     THEN <<Log("PRINT", "tenant_authorizer", 91, Text("Unable to decode response data"))>>
                     ELSE IF locals.output_tokens = Unbound
                     THEN <<Log("PRINT", "tenant_authorizer", 93, Text("API Key not found in response"))>>
                     ELSE <<>>)
               /\ IF locals.knowledge_base_id = Unbound
                  THEN /\ result' = Raise("UnboundLocalError", 101)
                       /\ pc' = "done"
                  ELSE /\ result' = Running
                       /\ pc' = "assume"
    /\ UNCHANGED <<event, keys, response, session_parameters, stsSerial,
                   control_plane_gw_url, time_now, sqlvars, tagvars, gwvars, opsvars, toolvars>>

\* AssumeRole as it would be if the bearer token were passed on as the usage
\* identifier key of the decision.
AssumeRole_token_as_key(raised) ==
    /\ pc = "assume"
    /\ LET tid == response.claims["custom:tenantId"]
           tags == request_tags(config.knowledge_base_id, tid)
           request == AssumeRoleRequest(assume_role_arn, tags, 900)
           answer == IF raised THEN [raised |-> TRUE]
                     ELSE [raised |-> FALSE, Credentials |-> Credentials(stsSerial + 1)]
           sp == assume_role(answer)
       IN /\ calls' = Append(calls, request @@ [issued |-> IF raised THEN 0 ELSE stsSerial + 1])
          /\ stsSerial' = IF raised THEN stsSerial ELSE stsSerial + 1
          /\ session_parameters' = sp
          /\ LET authorization_success_policy ==
                    create_auth_success_policy(
                        event.methodArn, tid, config.tenant_name,
                        config.knowledge_base_id,
                        sp.aws_access_key_id, sp.aws_secret_access_key,
                        sp.aws_session_token, event.auth.token)
                 role_assumed == Log("PRINT", "tenant_authorizer", 104, Text("Role Assumed!"))
             IN IF sp = None
                THEN /\ result' = Raise("AttributeError", 110)
                     /\ log' = log \o assume_role_log(assume_role_arn, tags, answer)
                                   \o <<role_assumed>>
                ELSE /\ result' = Return(authorization_success_policy)
                     /\ log' = log \o assume_role_log(assume_role_arn, tags, answer)
                                   \o <<role_assumed,
                                        Log("DEBUG", "tenant_authorizer", 116, authorization_success_policy),
                                        Log("INFO", "tenant_authorizer", 117, Text("Authorization succeeded"))>>
          /\ pc' = "done"
    /\ UNCHANGED <<event, keys, response, config, control_plane_gw_url, time_now, sqlvars, tagvars, gwvars, opsvars, toolvars>>

\* Lines 102-118: sts.assume_role answers; build the success policy from
\* the session parameters.
AssumeRole(raised) ==
    /\ pc = "assume"
    /\ LET tid == response.claims["custom:tenantId"]
           tags == request_tags(config.knowledge_base_id, tid)
           request == AssumeRoleRequest(assume_role_arn, tags, 900)
           answer == IF raised THEN [raised |-> TRUE]
                     ELSE [raised |-> FALSE, Credentials |-> Credentials(stsSerial + 1)]
           sp == assume_role(answer)
       IN /\ calls' = Append(calls, request @@ [issued |-> IF raised THEN 0 ELSE stsSerial + 1])
          /\ stsSerial' = IF raised THEN stsSerial ELSE stsSerial + 1
          /\ session_parameters' = sp
          /\ LET authorization_success_policy ==
                    create_auth_success_policy(
                        event.methodArn, tid, config.tenant_name,
                        config.knowledge_base_id,
                        sp.aws_access_key_id, sp.aws_secret_access_key,
                        sp.aws_session_token, config.api_key)
                 role_assumed == Log("PRINT", "tenant_authorizer", 104, Text("Role Assumed!"))
             IN IF sp = None
                THEN /\ result' = Raise("AttributeError", 110)
                     /\ log' = log \o assume_role_log(assume_role_arn, tags, answer)
                                   \o <<role_assumed>>
                ELSE /\ result' = Return(authorization_success_policy)
                     /\ log' = log \o assume_role_log(assume_role_arn, tags, answer)
                                   \o <<role_assumed,
                                        Log("DEBUG", "tenant_authorizer", 116, authorization_success_policy),
                                        Log("INFO", "tenant_authorizer", 117, Text("Authorization succeeded"))>>
          /\ pc' = "done"
    /\ UNCHANGED <<event, keys, response, config, control_plane_gw_url, time_now, sqlvars, tagvars, gwvars, opsvars, toolvars>>

(***************************************************************************)
(* The state of the gateway path, the agent and the wrapped tool before    *)
(* any of them has run.  A Python dict is a function on the keys the model *)
(* uses, Absent for a key the dict does not hold.                          *)
(***************************************************************************)
NoneStr == "<None>"     \* Python's None where the code expects a str

HeaderNames == {"X-Tenant-ID", "x-tenant-id", "Authorization", "authorization"}
ArgumentNames == {"tenant_id", "sql", "database"}
NoArguments == [a \in ArgumentNames |-> Absent]
NoGatewayRequest == [headers |-> [h \in HeaderNames |-> Absent],
                     body |-> [form |-> "no-params", arguments |-> NoArguments]]

GatewayIdle ==
    /\ gateway_request = NoGatewayRequest
    /\ transformed = None
    /\ athena_started = <<>>
    /\ handler_return = None

\* ops_context.py lines 29-45: every class attribute and every context
\* variable default is None.
NoOpsValues == [gateway_token |-> NoneStr, authorization_header |-> NoneStr]

OpsIdle ==
    /\ OpsContext = NoOpsValues
    /\ ctx = NoOpsValues
    /\ invocations = <<>>
    /\ access_token = NoneStr

ParamNames == {"tenant_id", "sql", "limit"}

\* wrapped_tool.py line 17: self._bound_params = dict()
ToolIdle ==
    /\ bound_params = [n \in ParamNames |-> Absent]
    /\ delegate_calls = <<>>
    /\ bind_result = "not called"

NoEvent == [methodArn |-> "", auth |-> [form |-> "missing"]]

\* The invocation is over and its locals are gone; the Lambda runtime waits
\* for the next event.
Finish ==
    /\ pc = "done"
    /\ pc' = "idle"
    /\ event' = NoEvent
    /\ keys' = None
    /\ response' = None
    /\ config' = NoLocals
    /\ session_parameters' = Unbound
    /\ result' = Running
    /\ calls' = <<>>
    /\ log' = <<>>
    /\ time_now' = 0
    /\ UNCHANGED <<stsSerial, control_plane_gw_url, sqlvars, tagvars, gwvars, opsvars, toolvars>>

Init ==
    /\ pc = "idle"
    /\ event = NoEvent
    /\ keys = None
    /\ response = None
    /\ config = NoLocals
    /\ session_parameters = Unbound
    /\ result = Running
    /\ calls = <<>>
    /\ log = <<>>
    /\ stsSerial = 0
    /\ control_plane_gw_url \in ControlPlaneUrls
    /\ time_now = 0
    /\ sql = <<>>
    /\ tenant_id = <<>>
    /\ modified_sql = NotCalled
    /\ modified_twice = NotCalled
    /\ tags_a = <<>>
    /\ tags_b = <<>>
    /\ session_names = <<>>
    /\ GatewayIdle
    /\ OpsIdle
    /\ ToolIdle

Next ==
    \/ \E ev \in Events : Invoke(ev)
    \/ \E answer \in JwksAnswers, t \in Times : FetchKeys(answer, t)
    \/ \E answer \in ConfigAnswers : LookupConfig(answer)
    \/ \E raised \in BOOLEAN : AssumeRole(raised)
    \/ Finish

Spec == Init /\ [][Next]_vars

(***************************************************************************)
(* agentcore_service.lambda_handler, lines 127-140: the downstream service *)
(* reads the tenant id from requestContext.authorizer, the context map of  *)
(* the authorizer's decision.                                              *)
(***************************************************************************)
\* tenant_id = authorizer.get('tenant_id', tenant_name): the field of the
\* context the tenant id is read from.
agentcore_tenant_id_field(authorizer) ==
    IF "tenant_id" \in DOMAIN authorizer THEN "tenant_id" ELSE "tenant_name"

(***************************************************************************)
(* A caller applies append_tenant_filter to a query and a tenant id.       *)
(***************************************************************************)
InitSql ==
    /\ pc = "idle"
    /\ event = NoEvent
    /\ keys = None
    /\ response = None
    /\ config = NoLocals
    /\ session_parameters = Unbound
    /\ result = Running
    /\ calls = <<>>
    /\ log = <<>>
    /\ stsSerial = 0
    /\ control_plane_gw_url = [scheme |-> "https", rest |-> "cp.example/"]
    /\ time_now = 0
    /\ \/ sql \in Queries /\ tenant_id \in TenantIds
       \/ sql \in ExampleQueries /\ tenant_id \in {Acme} \cup QuotedTenantIds
       \/ sql = LimitColumnQuery /\ tenant_id = Acme
    /\ modified_sql = NotCalled
    /\ modified_twice = NotCalled
    /\ tags_a = <<>>
    /\ tags_b = <<>>
    /\ session_names = <<>>
    /\ GatewayIdle
    /\ OpsIdle
    /\ ToolIdle

Rewrite ==
    /\ modified_sql = NotCalled
    /\ modified_sql' = append_tenant_filter(sql, tenant_id)
    /\ UNCHANGED <<sql, tenant_id, modified_twice, authvars, tagvars, gwvars, opsvars, toolvars>>

\* The caller applies append_tenant_filter to the query it got back.
RewriteAgain ==
    /\ modified_sql # NotCalled
    /\ modified_twice = NotCalled
    /\ modified_twice' = append_tenant_filter(modified_sql, tenant_id)
    /\ UNCHANGED <<sql, tenant_id, modified_sql, authvars, tagvars, gwvars, opsvars, toolvars>>

NextSql == Rewrite \/ RewriteAgain

SpecSql == InitSql /\ [][NextSql]_vars

(***************************************************************************)
(* Properties of the authorizer.                                           *)
(***************************************************************************)
Finished == pc = "done"
Returned == Finished /\ result.kind = "return"
Allowed == Returned /\ Effect(result.policy) = "Allow"
Denied == Returned /\ Effect(result.policy) = "Deny"
Validated == response # None       \* validateJWT has run in this invocation
TheToken == event.auth.token

\* The token's kid names a key of the key set.
KidInKeySet(token, ks) == \E i \in 1..Len(ks) : ks[i].kid = token.headers.kid

\* The token's signature verifies under the first key of the set with its kid.
SignedByKeyOfSet(token, ks) ==
    \E i \in 1..Len(ks) :
        /\ ks[i].kid = token.headers.kid
        /\ \A j \in 1..(i - 1) : ks[j].kid # token.headers.kid
        /\ ks[i].n = token.signedBy

\* C1: a decision with Effect Allow is returned only for a request whose
\* bearer token was signed by a key of the fetched key set, is not expired
\* at the time of validation and has aud equal to the app client id.
C1_AllowOnlyForValidToken ==
    Allowed =>
        /\ event.auth.form = "bearer"
        /\ response.returned = "claims"
        /\ SignedByKeyOfSet(TheToken, keys)
        /\ TheToken.claims.exp >= time_now
        /\ TheToken.claims.aud = appclient_id

C1_Witness ==
    /\ Allowed
    /\ TheToken.claims.exp = time_now
    /\ result.policy.principalId = "t2"

\* C4: every invocation in which a failure of the taxonomy occurs returns
\* the Deny decision for its methodArn; it neither returns Allow nor ends
\* with an unhandled exception.  The failures of the taxonomy all happen
\* from the JWKS fetch on.
C4_EveryFailureIsDeny ==
    (Finished /\ Len(calls) >= 1 /\ ~Allowed) =>
        result = Return(create_auth_denied_policy(event.methodArn))

\* The role-assumption call of this invocation, if any, failed.
AssumeRoleFailed ==
    \E i \in 1..Len(calls) : calls[i].to = "sts" /\ calls[i].issued = 0

\* C5: when the role-assumption call fails the invocation never returns
\* Allow, and the credentials in the context of an Allow decision are those
\* that a successful tagged assume-role call of the same invocation returned.
C5_NoAllowWithoutAssumedRole ==
    /\ (Finished /\ AssumeRoleFailed) => ~Allowed
    /\ Allowed =>
        \E i \in 1..Len(calls) :
            /\ calls[i].to = "sts"
            /\ calls[i].issued > 0
            /\ Len(calls[i].Tags) > 0
            /\ LET c == Credentials(calls[i].issued) IN
               /\ result.policy.context.aws_access_key_id = c.AccessKeyId
               /\ result.policy.context.aws_secret_access_key = c.SecretAccessKey
               /\ result.policy.context.aws_session_token = c.SessionToken

C5_Witness ==
    /\ Finished
    /\ AssumeRoleFailed
    /\ result.kind = "raise"
    /\ session_parameters = None

\* The tenant-config answer of this invocation is a 2xx answer whose body is
\* a JSON object with all five keys.
GoodConfigAnswer(answer) ==
    /\ ~answer.raised
    /\ answer.status_code = 200
    /\ answer.content.kind = "json"
    /\ answer.content.has = ConfigKeys

\* C6: an invocation whose tenant-config lookup answers with a non-2xx
\* status, or with a body that is not JSON with all five keys, never
\* returns Allow.
C6_BadConfigNeverAllows ==
    Allowed =>
        \A i \in 1..Len(calls) :
            calls[i].to = "tenant-config" => GoodConfigAnswer(calls[i].answer)

\* The token passes the signature, expiry and audience checks.
PassesChecks(token, ks, t) ==
    /\ SignedByKeyOfSet(token, ks)
    /\ token.claims.exp >= t
    /\ token.claims.aud = appclient_id

\* C7: a token that passes the signature, expiry and audience checks but
\* has no tenant id claim fails validation; its claims are not returned.
C7_MissingTenantClaimFails ==
    (Validated /\ PassesChecks(TheToken, keys, time_now)
               /\ "custom:tenantId" \notin DOMAIN TheToken.claims) =>
        response.returned = "False"

AllowedAlgorithms == {"RS256"}

\* C8: validateJWT rejects every token whose header declares alg=none or
\* an algorithm that is not allow-listed, also when the key set has a key
\* with the token's kid.
C8_RejectsAlgNone ==
    (Validated /\ TheToken.headers.alg \notin AllowedAlgorithms) =>
        response.returned = "False"

\* C9: for a token whose kid matches no key of the key set, validateJWT
\* returns False (at the 'Public key not found' return, never the claims),
\* whatever its signature, exp and aud are.
C9_UnknownKidFails ==
    (Validated /\ ~KidInKeySet(TheToken, keys)) =>
        /\ response.returned = "False"
        /\ TheToken.headers.kid # Absent => response.line = 41

C9_Witness ==
    /\ Validated
    /\ ~KidInKeySet(TheToken, keys)
    /\ keys # <<>>
    /\ TheToken.signedBy = keys[1].n
    /\ TheToken.claims.exp > time_now
    /\ TheToken.claims.aud = appclient_id
    /\ Denied

\* C10: for a token whose exp is earlier than the current time, by one
\* second already, validateJWT returns False and never the claims; when
\* the signature is valid it is the expiry check that rejects it.
C10_ExpiredFails ==
    (Validated /\ TheToken.claims.exp < time_now) =>
        /\ response.returned = "False"
        /\ SignedByKeyOfSet(TheToken, keys) => response.line = 65

C10_Witness ==
    /\ Validated
    /\ TheToken.claims.exp + 1 = time_now
    /\ SignedByKeyOfSet(TheToken, keys)
    /\ TheToken.claims.aud = appclient_id
    /\ response.line = 65
    /\ Denied

\* C11: for a token whose aud differs from the app client id, validateJWT
\* returns False and never the claims; when the signature is valid and the
\* token is not expired it is the audience check that rejects it.
C11_WrongAudienceFails ==
    (Validated /\ TheToken.claims.aud # appclient_id) =>
        /\ response.returned = "False"
        /\ (SignedByKeyOfSet(TheToken, keys) /\ TheToken.claims.exp >= time_now)
              => response.line = 70

C11_Witness ==
    /\ Validated
    /\ TheToken.claims.aud # appclient_id
    /\ SignedByKeyOfSet(TheToken, keys)
    /\ TheToken.claims.exp > time_now
    /\ response.line = 70
    /\ Denied

\* C12: a Deny decision carries no context: it has the fields principalId
\* and policyDocument only (no context map, no usage key), its principalId
\* is empty and names no tenant, and its statement denies the methodArn of
\* the event.
C12_DenyCarriesNoContext ==
    Denied =>
        /\ DOMAIN result.policy = {"principalId", "policyDocument"}
        /\ result.policy.principalId = ""
        /\ result.policy.principalId \notin TenantIdClaims
        /\ result.policy.policyDocument.Statement
              = <<Statement("Deny", event.methodArn)>>

C12_Witness ==
    /\ Denied
    /\ "custom:tenantId" \in DOMAIN TheToken.claims
    /\ TheToken.claims["custom:tenantId"] = "t1"
    /\ SignedByKeyOfSet(TheToken, keys)
    /\ "context" \notin DOMAIN result.policy

\* The bearer token of the event, or the whole authorization value.
IsBearerToken(v) == v = event.auth \/ (event.auth.form = "bearer" /\ v = TheToken)

\* C13: no returned decision holds the raw bearer token or the value of the
\* Authorization header, in its context map or in any other field.  A Deny
\* decision has a principalId and a policy document only; an Allow decision
\* has the tenant id as principalId, the configuration values and the
\* credentials of the session in its context, and the api key.
C13_NoTokenInDecision ==
    /\ Returned =>
        /\ result.policy.policyDocument.Statement[1].Resource = event.methodArn
        /\ DOMAIN result.policy.policyDocument = {"Version", "Statement"}
    /\ Denied =>
        /\ DOMAIN result.policy = {"principalId", "policyDocument"}
        /\ result.policy.principalId = ""
    /\ Allowed =>
        /\ DOMAIN result.policy
              = {"principalId", "policyDocument", "context", "usageIdentifierKey"}
        /\ DOMAIN result.policy.context
              = {"knowledge_base_id", "aws_access_key_id", "aws_secret_access_key",
                 "aws_session_token", "tenant_name"}
        /\ result.policy.principalId \in TenantIdClaims
        /\ ~IsBearerToken(result.policy.usageIdentifierKey)
        /\ ~IsBearerToken(result.policy.context.knowledge_base_id)
        /\ ~IsBearerToken(result.policy.context.tenant_name)
        /\ result.policy.context.aws_access_key_id = session_parameters.aws_access_key_id
        /\ result.policy.context.aws_secret_access_key
              = session_parameters.aws_secret_access_key
        /\ result.policy.context.aws_session_token = session_parameters.aws_session_token
        /\ \E n \in 1..stsSerial :
              session_parameters = SessionParameters(Credentials(n).AccessKeyId,
                                                     Credentials(n).SecretAccessKey,
                                                     Credentials(n).SessionToken)

C13_Witness ==
    /\ Allowed
    /\ event.auth.form = "bearer"
    /\ result.policy.usageIdentifierKey = TenantConfig("t1").apiKey

\* C14: for a request with a valid token of tenant X the Allow decision's
\* context contains the tenant id X, and the downstream service, which
\* reads the tenant id from the context, obtains it from that field.
C14_ContextHasTenantId ==
    Allowed =>
        /\ \E k \in {"tenantId", "tenant_id"} \cap DOMAIN result.policy.context :
              result.policy.context[k] = TheToken.claims["custom:tenantId"]
        /\ agentcore_tenant_id_field(result.policy.context) = "tenant_id"

\* C15: the credentials of an Allow decision come from a role-assumption
\* call of the same invocation whose tags hold TenantID = the custom:tenantId
\* claim of the validated token and KnowledgeBaseId = the knowledgeBaseId of
\* that tenant's configuration, and no TenantID tag of another tenant.
C15_CredentialsTaggedWithTenant ==
    Allowed =>
        LET tid == TheToken.claims["custom:tenantId"] IN
        \E i \in 1..Len(calls) :
            /\ calls[i].to = "sts"
            /\ calls[i].issued > 0
            /\ result.policy.context.aws_access_key_id = Credentials(calls[i].issued).AccessKeyId
            /\ result.policy.context.aws_secret_access_key
                  = Credentials(calls[i].issued).SecretAccessKey
            /\ result.policy.context.aws_session_token
                  = Credentials(calls[i].issued).SessionToken
            /\ \E k \in 1..Len(calls[i].Tags) :
                  /\ calls[i].Tags[k].Key = <<"TenantID">>
                  /\ calls[i].Tags[k].Value = <<tid>>
            /\ \A k \in 1..Len(calls[i].Tags) :
                  calls[i].Tags[k].Key = <<"TenantID">> => calls[i].Tags[k].Value = <<tid>>
            /\ \E k \in 1..Len(calls[i].Tags) :
                  /\ calls[i].Tags[k].Key = <<"KnowledgeBaseId">>
                  /\ calls[i].Tags[k].Value = <<TenantConfig(tid).knowledgeBaseId>>

C15_Witness ==
    /\ Allowed
    /\ TheToken.claims["custom:tenantId"] = "t2"
    /\ result.policy.context.knowledge_base_id = TenantConfig("t2").knowledgeBaseId
    /\ stsSerial = 2

\* C24: the JWKS fetch and the tenant-configuration lookup go to https URLs
\* only: a URL of any other scheme, http included, is rejected before the
\* request is made.
C24_HttpsOnly ==
    \A i \in 1..Len(calls) :
        calls[i].to \in {"jwks", "tenant-config"} => calls[i].url.scheme = "https"

\* C25: once the key set of the issuer has been fetched, no later request
\* fetches it again.  stsSerial > 0 tells that an earlier step of this
\* process got credentials, so the key set had been fetched and a token
\* validated against it; a step that adds a call then adds no JWKS fetch.
C25_NoSecondJwksFetch ==
    [][(stsSerial > 0 /\ Len(calls') > Len(calls)) => calls'[Len(calls')].to # "jwks"]_vars

CredentialFields == {"aws_access_key_id", "aws_secret_access_key", "aws_session_token"}

\* The logged object holds scoped credentials, itself or in its context map.
EmitsCredentials(object) ==
    \/ DOMAIN object \cap CredentialFields # {}
    \/ "context" \in DOMAIN object /\ DOMAIN object.context \cap CredentialFields # {}

\* C26: no log statement of an invocation, at any level, emits the access
\* key id, the secret access key or the session token, neither by itself
\* nor inside a logged decision.
C26_CredentialsNeverLogged ==
    \A i \in 1..Len(log) : ~EmitsCredentials(log[i].object)

\* C27: a tenant id is used for the tenant-configuration lookup, the
\* TenantID tag or the principalId only after validateJWT has returned the
\* claims of a token whose signature it verified, and it is the tenant id
\* of those claims; validateJWT gets to its expiry and audience checks
\* (returns of lines 65, 70, 73) only after the signature check succeeded.
C27_OnlyVerifiedClaimsDecide ==
    /\ \A i \in 1..Len(calls) :
          calls[i].to \in {"tenant-config", "sts"} =>
            /\ response.returned = "claims"
            /\ SignedByKeyOfSet(TheToken, keys)
            /\ calls[i].to = "tenant-config" =>
                  calls[i].tenantId = TheToken.claims["custom:tenantId"]
            /\ calls[i].to = "sts" =>
                  \A k \in 1..Len(calls[i].Tags) :
                      calls[i].Tags[k].Key = <<"TenantID">> =>
                          calls[i].Tags[k].Value = <<TheToken.claims["custom:tenantId"]>>
    /\ Allowed =>
          /\ response.returned = "claims"
          /\ SignedByKeyOfSet(TheToken, keys)
          /\ result.policy.principalId = TheToken.claims["custom:tenantId"]
    /\ (Validated /\ response.line \in {65, 70, 73}) => SignedByKeyOfSet(TheToken, keys)

C27_Witness ==
    /\ Allowed
    /\ result.policy.principalId = "t1"
    /\ \E i \in 1..Len(calls) : calls[i].to = "tenant-config" /\ calls[i].tenantId = "t1"

(***************************************************************************)
(* What a rewritten query selects.  A row has the boolean columns p and q  *)
(* and a tenant_id; the query engine accepts                               *)
(*   SELECT a FROM t [WHERE cond] [GROUP BY a] [ORDER BY a] [LIMIT 5]      *)
(* with cond built from p, q, (q) and tenant_id = '...' by AND and OR, AND *)
(* binding tighter than OR, and rejects every other text.                  *)
(***************************************************************************)
Rows == [p : BOOLEAN, q : BOOLEAN, tenant_id : TenantIds \ {<<>>}]

UpperSeq(w) == [i \in 1..Len(w) |-> upper(w[i])]

\* The words of s, split at white space.
RECURSIVE SplitFrom(_, _)
SplitFrom(s, i) ==
    IF i > Len(s) THEN <<>>
    ELSE IF IsSpace(s[i]) THEN SplitFrom(s, i + 1)
    ELSE LET ends == {j \in i..Len(s) : j = Len(s) \/ IsSpace(s[j + 1])}
             e == CHOOSE j \in ends : \A k \in ends : j <= k
         IN <<SubSeq(s, i, e)>> \o SplitFrom(s, e + 1)

Words(s) == SplitFrom(s, 1)

KwSELECT == <<"S", "E", "L", "E", "C", "T">>
KwFROM == <<"F", "R", "O", "M">>
KwOR == <<"O", "R">>
KwAND == <<"A", "N", "D">>
KwGROUP == <<"G", "R", "O", "U", "P">>
KwORDER == <<"O", "R", "D", "E", "R">>
KwLIMIT == <<"L", "I", "M", "I", "T">>
KwBY == <<"B", "Y">>
ColTenantId == <<"t", "e", "n", "a", "n", "t", "_", "i", "d">>

TailKeywords == {KwGROUP, KwORDER, KwLIMIT}

GroupBy == <<KwGROUP, KwBY, <<"A">>>>
OrderBy == <<KwORDER, KwBY, <<"A">>>>
Limit == <<KwLIMIT, <<"5">>>>
ValidTails == {g \o o \o l : <<g, o, l>> \in {<<>>, GroupBy} \X {<<>>, OrderBy} \X {<<>>, Limit}}

\* Index of the first word of ws that is the keyword kw, 0 if there is none.
FirstKw(ws, kws) ==
    LET at == {i \in 1..Len(ws) : UpperSeq(ws[i]) \in kws} IN
    IF at = {} THEN 0 ELSE CHOOSE i \in at : \A j \in at : i <= j

IsTenantLiteral(w) == Len(w) >= 2 /\ w[1] = "'" /\ w[Len(w)] = "'"
                      /\ \A i \in 2..(Len(w) - 1) : w[i] # "'"

ValidAtom(c) ==
    \/ Len(c) = 1 /\ c[1] \in {<<"p">>, <<"q">>, <<"(", "q", ")">>}
    \/ Len(c) = 3 /\ c[1] = ColTenantId /\ c[2] = <<"=">> /\ IsTenantLiteral(c[3])

EvalAtom(c, row) ==
    IF Len(c) = 1
    THEN IF c[1] = <<"p">> THEN row.p ELSE row.q
    ELSE row.tenant_id = SubSeq(c[3], 2, Len(c[3]) - 1)

RECURSIVE ValidAnd(_)
ValidAnd(c) ==
    LET i == FirstKw(c, {KwAND}) IN
    IF i = 0 THEN ValidAtom(c)
    ELSE ValidAtom(SubSeq(c, 1, i - 1)) /\ ValidAnd(SubSeq(c, i + 1, Len(c)))

RECURSIVE EvalAnd(_, _)
EvalAnd(c, row) ==
    LET i == FirstKw(c, {KwAND}) IN
    IF i = 0 THEN EvalAtom(c, row)
    ELSE EvalAtom(SubSeq(c, 1, i - 1), row) /\ EvalAnd(SubSeq(c, i + 1, Len(c)), row)

RECURSIVE ValidOr(_)
ValidOr(c) ==
    LET i == FirstKw(c, {KwOR}) IN
    IF i = 0 THEN ValidAnd(c)
    ELSE ValidAnd(SubSeq(c, 1, i - 1)) /\ ValidOr(SubSeq(c, i + 1, Len(c)))

RECURSIVE EvalOr(_, _)
EvalOr(c, row) ==
    LET i == FirstKw(c, {KwOR}) IN
    IF i = 0 THEN EvalAnd(c, row)
    ELSE EvalAnd(SubSeq(c, 1, i - 1), row) \/ EvalOr(SubSeq(c, i + 1, Len(c)), row)

\* The words after 'SELECT a FROM t', cut into the WHERE part and the tail.
QueryParts(q) ==
    LET ws == Words(q)
        rest == SubSeq(ws, 5, Len(ws))
        t == FirstKw(rest, TailKeywords)
        cut == IF t = 0 THEN Len(rest) + 1 ELSE t
    IN [head |-> SubSeq(ws, 1, 4),
        body |-> SubSeq(rest, 1, cut - 1),
        tail |-> SubSeq(rest, cut, Len(rest))]

ValidQuery(q) ==
    LET parts == QueryParts(q) IN
    /\ Len(parts.head) = 4
    /\ UpperSeq(parts.head[1]) = KwSELECT
    /\ parts.head[2] = <<"a">>
    /\ UpperSeq(parts.head[3]) = KwFROM
    /\ parts.head[4] = <<"t">>
    /\ \/ parts.body = <<>>
       \/ /\ UpperSeq(parts.body[1]) = WHERE
          /\ ValidOr(Tail(parts.body))
    /\ [i \in 1..Len(parts.tail) |-> UpperSeq(parts.tail[i])] \in ValidTails

\* The query engine returns the row for the query.
Selects(q, row) ==
    /\ ValidQuery(q)
    /\ LET parts == QueryParts(q) IN
       parts.body = <<>> \/ EvalOr(Tail(parts.body), row)

(***************************************************************************)
(* Where predicates and clauses stand in a query text.                     *)
(***************************************************************************)
\* tenant_id = '<tid>'
TenantPredicate(tid) == ColTenantId \o <<" ", "=", " ", "'">> \o tid \o <<"'">>

\* The positions at which sub occurs in s.
Occurrences(sub, s) ==
    {i \in 1..Len(s) : i + Len(sub) - 1 <= Len(s) /\ SubSeq(s, i, i + Len(sub) - 1) = sub}

\* The two-word keyword 'first BY' starts at position i of s.
TwoWordsAt(s, i, first) ==
    /\ WordAt(s, i, first)
    /\ \E j \in (i + Len(first) + 1)..Len(s) :
        /\ \A k \in (i + Len(first))..(j - 1) : IsSpace(s[k])
        /\ WordAt(s, j, KwBY)

\* The positions at which a GROUP BY, ORDER BY or LIMIT clause starts in s.
ClauseStarts(s) ==
    {i \in 1..Len(s) : \/ TwoWordsAt(s, i, KwGROUP)
                       \/ TwoWordsAt(s, i, KwORDER)
                       \/ WordAt(s, i, KwLIMIT)}

(***************************************************************************)
(* Properties of append_tenant_filter.                                     *)
(***************************************************************************)
Rewritten == modified_sql # NotCalled

\* C2: for every query and non-empty tenant id T, every row that the
\* rewritten query selects has tenant_id = T, whatever the caller's own
\* WHERE condition is (C OR D included: the filter is (C OR D) AND T).
C2_SelectsOnlyTenantRows ==
    (Rewritten /\ tenant_id # <<>>) =>
        \A row \in Rows : Selects(modified_sql, row) => row.tenant_id = tenant_id

\* C3: for any query and any tenant id, the output has exactly one more
\* tenant predicate than the input, and it stands before every GROUP BY,
\* ORDER BY and LIMIT clause of the output.
C3_OnePredicateBeforeClauses ==
    Rewritten =>
        LET pred == TenantPredicate(tenant_id) IN
        /\ Cardinality(Occurrences(pred, modified_sql))
             = Cardinality(Occurrences(pred, sql)) + 1
        /\ \E i \in Occurrences(pred, modified_sql) :
              \A c \in ClauseStarts(modified_sql) : i < c

Expected1 == <<"S", "E", "L", "E", "C", "T", " ", "*", " ", "F", "R", "O", "M", " ", "l", "o", "g", "s", " ", "W", "H", "E", "R", "E", " ", "t", "e", "n", "a", "n", "t", "_", "i", "d", " ", "=", " ", "'", "a", "c", "m", "e", "'">>
Expected2 == <<"S", "E", "L", "E", "C", "T", " ", "*", " ", "F", "R", "O", "M", " ", "l", "o", "g", "s", " ", "W", "H", "E", "R", "E", " ", "l", "e", "v", "e", "l", "=", "'", "E", "R", "R", "O", "R", "'", " ", "A", "N", "D", " ", "t", "e", "n", "a", "n", "t", "_", "i", "d", " ", "=", " ", "'", "a", "c", "m", "e", "'", " ", "O", "R", "D", "E", "R", " ", "B", "Y", " ", "t", "s", " ", "D", "E", "S", "C", " ", "L", "I", "M", "I", "T", " ", "1", "0">>

\* The query without outer white space and one trailing semicolon.
TrimmedQuery(q) ==
    LET s0 == strip(q) IN
    IF Len(s0) > 0 /\ s0[Len(s0)] = ";" THEN strip(SubSeq(s0, 1, Len(s0) - 1)) ELSE s0

\* modified_sql is main, the predicate for the tenant id joined by infix,
\* and the trailing clauses after one space if there are any.
IsFiltered(main, infix, trailing) ==
    modified_sql = main \o infix \o TenantPredicate(tenant_id)
                        \o (IF trailing = <<>> THEN <<>> ELSE <<" ">> \o trailing)

\* C18: for every query and non-empty tenant id T the output is the main
\* query (the part before the split point) followed by " AND tenant_id = 'T'"
\* if the main query contains a case-insensitive WHERE token and by
\* " WHERE tenant_id = 'T'" otherwise, then the trailing clauses; the two
\* documented examples give the documented outputs.
C18_AndIfWhereElseWhere ==
    (Rewritten /\ tenant_id # <<>>) =>
        LET s == TrimmedQuery(sql)
            pos == insert_pos(s)
            main == strip(SubSeq(s, 1, pos))
            trailing == strip(SubSeq(s, pos + 1, Len(s)))
            where == \E i \in 1..Len(main) : WordAt(main, i, WHERE)
        IN /\ where => IsFiltered(main, <<" ", "A", "N", "D", " ">>, trailing)
           /\ ~where => IsFiltered(main, <<" ", "W", "H", "E", "R", "E", " ">>, trailing)
           /\ (sql = Example1 /\ tenant_id = Acme) => modified_sql = Expected1
           /\ (sql = Example2 /\ tenant_id = Acme) => modified_sql = Expected2

C18_Witness ==
    /\ sql = Example2
    /\ tenant_id = Acme
    /\ modified_sql = Expected2

\* C19: the split point is the least start offset among the first
\* case-insensitive occurrences of GROUP BY, ORDER BY and LIMIT (the end of
\* the query if there is none); the predicate is inserted exactly there,
\* before the clause and never after it, and the text before and after the
\* split point is kept.
C19_SplitAtFirstClause ==
    (Rewritten /\ tenant_id # <<>>) =>
        LET s == TrimmedQuery(sql)
            starts == ClauseStarts(s)
            split == IF starts = {} THEN Len(s)
                     ELSE (CHOOSE i \in starts : \A j \in starts : i <= j) - 1
            main == strip(SubSeq(s, 1, split))
            trailing == strip(SubSeq(s, split + 1, Len(s)))
        IN \/ IsFiltered(main, <<" ", "A", "N", "D", " ">>, trailing)
           \/ IsFiltered(main, <<" ", "W", "H", "E", "R", "E", " ">>, trailing)

\* C20: with an empty (or missing) tenant id the output is the input,
\* character for character: no predicate, no trimming.
C20_EmptyTenantIdUnchanged ==
    (Rewritten /\ tenant_id = <<>>) => modified_sql = sql

C20_Witness ==
    /\ Rewritten
    /\ tenant_id = <<>>
    /\ Len(sql) >= 3
    /\ sql[1] = " "
    /\ sql[Len(sql)] = ";"
    /\ modified_sql = sql

\* The text of the SQL string literal whose opening quote stands right before
\* position j of s: '' is a quote of the text, a single ' ends the literal.
RECURSIVE Literal(_, _)
Literal(s, j) ==
    IF j > Len(s) THEN <<>>
    ELSE IF s[j] = "'"
         THEN IF j + 1 <= Len(s) /\ s[j + 1] = "'"
              THEN <<"'">> \o Literal(s, j + 2)
              ELSE <<>>
         ELSE <<s[j]>> \o Literal(s, j + 1)

PredicateOpening == ColTenantId \o <<" ", "=", " ", "'">>

\* C21: for every non-empty tenant id, quotes included, the string literal
\* of the predicate tenant_id = '...' in the output is the whole tenant id:
\* a quote of the tenant id is escaped and cannot close the literal.
\* (append_tenant_filter has no rejecting outcome: it always returns a query.)
C21_QuoteCannotCloseLiteral ==
    (Rewritten /\ tenant_id # <<>>) =>
        \E i \in Occurrences(PredicateOpening, modified_sql) :
            Literal(modified_sql, i + Len(PredicateOpening)) = tenant_id

RewrittenTwice == modified_twice # NotCalled

\* C22: for every query and non-empty tenant id T the second application
\* puts " AND tenant_id = 'T'" right after the first predicate and before
\* the trailing clauses, so its result has one predicate more and differs
\* from the result of the first application.
C22_TwiceAddsSecondPredicate ==
    (RewrittenTwice /\ tenant_id # <<>>) =>
        LET pred == TenantPredicate(tenant_id)
            once == Occurrences(pred, modified_sql)
        IN /\ Cardinality(once) = 1
           /\ LET k == (CHOOSE i \in once : TRUE) + Len(pred) - 1 IN
               modified_twice = strip(SubSeq(modified_sql, 1, k))
                                    \o <<" ", "A", "N", "D", " ">> \o pred
                                    \o SubSeq(modified_sql, k + 1, Len(modified_sql))
           /\ Cardinality(Occurrences(pred, modified_twice)) = 2
           /\ modified_twice # modified_sql

(***************************************************************************)
(* assume_role derives the role session names of two tag lists.            *)
(***************************************************************************)
\* Tag names and values; '-' and '=' are legal characters of both.
TagNames == {<<"a">>, <<"c">>}
TagValues == {<<"b">>, <<"d">>, <<"b", "-", "c", "=", "d">>}
RequestTags == TagNames \X TagValues
TagLists == UNION {[1..n -> RequestTags] : n \in 0..MaxTags}

InitTags ==
    /\ pc = "idle"
    /\ event = NoEvent
    /\ keys = None
    /\ response = None
    /\ config = NoLocals
    /\ session_parameters = Unbound
    /\ result = Running
    /\ calls = <<>>
    /\ log = <<>>
    /\ stsSerial = 0
    /\ control_plane_gw_url = [scheme |-> "https", rest |-> "cp.example/"]
    /\ time_now = 0
    /\ sql = <<>>
    /\ tenant_id = <<>>
    /\ modified_sql = NotCalled
    /\ modified_twice = NotCalled
    /\ tags_a \in TagLists
    /\ tags_b \in TagLists
    /\ session_names = <<>>
    /\ GatewayIdle
    /\ OpsIdle
    /\ ToolIdle

\* Lines 23-24 of assume_role, for each of the two tag lists.
DeriveSessionNames ==
    /\ session_names = <<>>
    /\ session_names' = <<role_session_name(tags_a), role_session_name(tags_b)>>
    /\ UNCHANGED <<tags_a, tags_b, authvars, sqlvars, gwvars, opsvars, toolvars>>

NextTags == DeriveSessionNames

SpecTags == InitTags /\ [][NextTags]_vars

(***************************************************************************)
(* Properties of the role session name.                                    *)
(***************************************************************************)
Derived == session_names # <<>>

Count(t, tags) == Cardinality({i \in 1..Len(tags) : tags[i] = t})

\* The two tag lists hold the same tags the same number of times.
SameMultiset(a, b) ==
    /\ Len(a) = Len(b)
    /\ \A t \in Range(a) \cup Range(b) : Count(t, a) = Count(t, b)

\* The string that was hashed for a session name.
Hashed(name) == name[2]

\* C16: two tag lists that are the same multiset of (name, value) pairs, in
\* any order, get the identical role session name.
C16_SessionNameIgnoresOrder ==
    (Derived /\ SameMultiset(tags_a, tags_b)) => session_names[1] = session_names[2]

\* C17: for two different tag sets, '-' and '=' in names and values
\* included, the strings hashed for the session names differ.
C17_DifferentTagsDifferentString ==
    (Derived /\ ~SameMultiset(tags_a, tags_b)) =>
        Hashed(session_names[1]) # Hashed(session_names[2])

(***************************************************************************)
(* The query path: the gateway interceptor rewrites the tool call, the     *)
(* gateway hands params.arguments of the transformed request to the log    *)
(* query handler as its event, the handler runs the query on Athena.       *)
(***************************************************************************)
\* dict.get(key, default)
get(d, key, default) == IF d[key] = Absent THEN default ELSE d[key]

\* lambda_handler of the interceptor as it would be if a tenant_id of the
\* caller were kept (setdefault instead of assignment).
interceptor_lambda_handler_keeps_caller(request) ==
    LET headers == request.headers
        body == request.body
        tid == get(headers, "X-Tenant-ID", "")
        extended_body ==
            IF body.form = "call" /\ body.arguments["tenant_id"] = Absent
            THEN [body EXCEPT !.arguments["tenant_id"] = tid]
            ELSE body
    IN [interceptorOutputVersion |-> "1.0",
        mcp |-> [transformedGatewayRequest |->
                    [headers |-> [h \in {"Accept", "Content-Type"} |-> "application/json"],
                     body |-> extended_body]]]

\* gateway-interceptor/handler.py lines 4-34.  body.form tells whether the
\* body has params and params has arguments ("call").
interceptor_lambda_handler(request) ==
    LET headers == request.headers
        body == request.body
        tid == get(headers, "X-Tenant-ID", "")
        extended_body ==
            IF body.form = "call"
            THEN [body EXCEPT !.arguments["tenant_id"] = tid]
            ELSE body
    IN [interceptorOutputVersion |-> "1.0",
        mcp |-> [transformedGatewayRequest |->
                    [headers |-> [h \in {"Accept", "Content-Type"} |-> "application/json"],
                     body |-> extended_body]]]

ATHENA_DB == "saas_logs_db"
ATHENA_WORKGROUP == "primary"
ATHENA_OUTPUT == "s3://your-athena-query-output/"

\* How Athena answers: start_query_execution raises, or the query ends in
\* one of the states _wait looks for, or _wait runs out of time.
AthenaOutcomes == {"start raised", "SUCCEEDED", "FAILED", "CANCELLED", "timeout"}

\* log-mcp-handler/handler.py lines 76-87: the start_query_execution call.
StartQueryExecution(query, database) ==
    [QueryString |-> query, WorkGroup |-> ATHENA_WORKGROUP,
     ResultConfiguration |-> [OutputLocation |-> ATHENA_OUTPUT],
     QueryExecutionContext |-> [Database |-> database]]

\* log-mcp-handler/handler.py lines 112-149: what handler returns.
handler(ev, outcome) ==
    LET tid == get(ev, "tenant_id", NoneStr)
        query == get(ev, "sql", "")
        db == IF get(ev, "database", NoneStr) \in {NoneStr, ""} THEN ATHENA_DB
              ELSE ev["database"]
    IN IF query = "" THEN [status |-> "error", message |-> "sql required"]
       ELSE IF outcome = "SUCCEEDED"
       THEN [status |-> "success", tenant_id |-> tid, sql |-> query, database |-> db,
             rows |-> [of |-> query]]
       ELSE [status |-> "error", message |-> outcome]

GatewayHeaders ==
    {h \in [HeaderNames -> {Absent, "", "t1", "t2", "Bearer tok"}] :
        /\ h["X-Tenant-ID"] \in {Absent, "", "t1", "t2"}
        /\ h["x-tenant-id"] \in {Absent, "t1"}
        /\ h["Authorization"] \in {Absent, "Bearer tok"}
        /\ h["authorization"] \in {Absent, "Bearer tok"}}

GatewayArguments ==
    {a \in [ArgumentNames -> {Absent, "", "t1", "t2", "SELECT * FROM tenant_logs", "other_db"}] :
        /\ a["tenant_id"] \in {Absent, "t1", "t2"}
        /\ a["sql"] \in {Absent, "", "SELECT * FROM tenant_logs"}
        /\ a["database"] \in {Absent, "other_db"}}

GatewayBodies ==
    {[form |-> f, arguments |-> NoArguments] : f \in {"no-params", "no-arguments"}}
    \cup {[form |-> "call", arguments |-> a] : a \in GatewayArguments}

GatewayRequests == [headers : GatewayHeaders, body : GatewayBodies]

AuthIdle ==
    /\ pc = "idle"
    /\ event = NoEvent
    /\ keys = None
    /\ response = None
    /\ config = NoLocals
    /\ session_parameters = Unbound
    /\ result = Running
    /\ calls = <<>>
    /\ log = <<>>
    /\ stsSerial = 0
    /\ control_plane_gw_url = [scheme |-> "https", rest |-> "cp.example/"]
    /\ time_now = 0

SqlIdle ==
    /\ sql = <<>>
    /\ tenant_id = <<>>
    /\ modified_sql = NotCalled
    /\ modified_twice = NotCalled

TagsIdle ==
    /\ tags_a = <<>>
    /\ tags_b = <<>>
    /\ session_names = <<>>

InitGateway ==
    /\ gateway_request \in GatewayRequests
    /\ transformed = None
    /\ athena_started = <<>>
    /\ handler_return = None
    /\ AuthIdle
    /\ SqlIdle
    /\ TagsIdle
    /\ OpsIdle
    /\ ToolIdle

\* The interceptor handles the request.
Intercept ==
    /\ transformed = None
    /\ transformed' = interceptor_lambda_handler(gateway_request)
    /\ UNCHANGED <<gateway_request, athena_started, handler_return,
                   authvars, sqlvars, tagvars, opsvars, toolvars>>

\* The arguments of the transformed tool call, the event of the handler.
HandlerEvent == transformed.mcp.transformedGatewayRequest.body.arguments

\* The log query handler handles the transformed tool call; a query is
\* started unless sql is empty (line 120) or start_query_execution raises.
HandleQuery(outcome) ==
    /\ transformed # None
    /\ transformed.mcp.transformedGatewayRequest.body.form = "call"
    /\ handler_return = None
    /\ handler_return' = handler(HandlerEvent, outcome)
    /\ athena_started' =
          IF get(HandlerEvent, "sql", "") = "" \/ outcome = "start raised"
          THEN athena_started
          ELSE Append(athena_started,
                      StartQueryExecution(HandlerEvent["sql"],
                                          handler(HandlerEvent, "SUCCEEDED").database))
    /\ UNCHANGED <<gateway_request, transformed, authvars, sqlvars, tagvars, opsvars, toolvars>>

NextGateway ==
    \/ Intercept
    \/ \E outcome \in AthenaOutcomes : HandleQuery(outcome)

SpecGateway == InitGateway /\ [][NextGateway]_vars

(***************************************************************************)
(* Properties of the query path.                                           *)
(***************************************************************************)
Intercepted == transformed # None
Handled == handler_return # None

\* C23: a request whose tenant id is missing or empty is rejected on the
\* query path: the handler returns an error for it and starts no query on
\* Athena.
C23_NoQueryWithoutTenantId ==
    (Handled /\ get(HandlerEvent, "tenant_id", "") = "") =>
        /\ athena_started = <<>>
        /\ handler_return.status = "error"

\* C30: for every event whose body has params.arguments the tenant_id
\* argument of the transformed request is the value of the X-Tenant-ID
\* header, the empty string if the header is absent, whatever tenant_id the
\* caller put into the body; the headers of the transformed request are
\* exactly Accept and Content-Type, so Authorization is not forwarded.
C30_TenantIdFromHeaderOnly ==
    Intercepted =>
        LET out == transformed.mcp.transformedGatewayRequest IN
        /\ DOMAIN out.headers = {"Accept", "Content-Type"}
        /\ gateway_request.body.form = "call" =>
              out.body.arguments["tenant_id"] =
                  (IF gateway_request.headers["X-Tenant-ID"] = Absent THEN ""
                   ELSE gateway_request.headers["X-Tenant-ID"])

C30_Witness ==
    /\ Intercepted
    /\ gateway_request.headers["X-Tenant-ID"] = "t1"
    /\ gateway_request.headers["Authorization"] = "Bearer tok"
    /\ gateway_request.body.form = "call"
    /\ gateway_request.body.arguments["tenant_id"] = "t2"
    /\ transformed.mcp.transformedGatewayRequest.body.arguments["tenant_id"] = "t1"

(***************************************************************************)
(* The agent process: agent_invocation and the tools read and set the      *)
(* authorization header and the gateway token of OpsContext.               *)
(***************************************************************************)
\* Python truthiness of an Optional[str].
Truthy(v) == v \notin {NoneStr, ""}

\* get_authorization_header_ctx as it would be if it read the context
\* variable only.
get_authorization_header_ctx_context_only(cls, c) == c.authorization_header

\* ops_context.py lines 101-108: the class attribute if it is truthy, else
\* the context variable (whose default is None, so no LookupError).
get_authorization_header_ctx(cls, c) ==
    IF Truthy(cls.authorization_header) THEN cls.authorization_header
    ELSE c.authorization_header

\* ops_context.py lines 65-75.
get_gateway_token_ctx(cls, c) ==
    IF Truthy(cls.gateway_token) THEN cls.gateway_token ELSE c.gateway_token

\* ops_context.py lines 77-81 and 110-113 set the class attribute and the
\* context variable to the same value.
set_gateway_token_ctx(v, token) == [v EXCEPT !.gateway_token = token]
set_authorization_header_ctx(v, header) == [v EXCEPT !.authorization_header = header]

\* headers.get("authorization") of a request: None, empty, or a header.
AuthHeaders == {NoneStr, "", "Bearer A", "Bearer B"}
SessionIds == {NoneStr, "s1"}

\* main.py lines 78-132.  The request is served in a context of its own, in
\* which no context variable has been set.  A request without a header
\* raises at line 90 before anything is set; a request without a session id
\* raises at line 113, after the token and the header have been set.
AgentInvocation(auth_header, session_id) ==
    /\ Len(invocations) < MaxInvocations
    /\ invocations' = Append(invocations, [header |-> auth_header, session_id |-> session_id])
    /\ access_token' = NoneStr
    /\ IF ~Truthy(auth_header)
       THEN /\ ctx' = NoOpsValues
            /\ UNCHANGED OpsContext
       ELSE LET set_token == ~Truthy(get_gateway_token_ctx(OpsContext, NoOpsValues))
                cls1 == IF set_token THEN set_gateway_token_ctx(OpsContext, auth_header)
                        ELSE OpsContext
                ctx1 == IF set_token THEN set_gateway_token_ctx(NoOpsValues, auth_header)
                        ELSE NoOpsValues
                set_header == ~Truthy(get_authorization_header_ctx(cls1, ctx1))
            IN /\ OpsContext' = IF set_header THEN set_authorization_header_ctx(cls1, auth_header)
                                ELSE cls1
               /\ ctx' = IF set_header THEN set_authorization_header_ctx(ctx1, auth_header)
                         ELSE ctx1
    /\ UNCHANGED <<authvars, sqlvars, tagvars, gwvars, toolvars>>

\* The agent task of the last invocation runs: the invocation had a header
\* and a session id.
TaskRunning ==
    /\ invocations # <<>>
    /\ Truthy(invocations[Len(invocations)].header)
    /\ Truthy(invocations[Len(invocations)].session_id)

\* log_agent.py lines 24-27 (kb_agent.py lines 26-29 alike): the tool reads
\* the authorization header it sends to the gateway.
LogAgentTool ==
    /\ TaskRunning
    /\ access_token' = get_authorization_header_ctx(OpsContext, ctx)
    /\ UNCHANGED <<OpsContext, ctx, invocations, authvars, sqlvars, tagvars, gwvars, toolvars>>

InitOps ==
    /\ OpsIdle
    /\ AuthIdle
    /\ SqlIdle
    /\ TagsIdle
    /\ GatewayIdle
    /\ ToolIdle

NextOps ==
    \/ \E h \in AuthHeaders, sid \in SessionIds : AgentInvocation(h, sid)
    \/ LogAgentTool

SpecOps == InitOps /\ [][NextOps]_vars

\* The invocations that came with an Authorization header.
WithHeader == {i \in 1..Len(invocations) : Truthy(invocations[i].header)}

\* C28: after any sequence of invocations the authorization header and the
\* gateway token of OpsContext are those of the first invocation that set
\* them, also when a later invocation brought another header, and a tool
\* called during any invocation reads that first header.
C28_FirstHeaderSticks ==
    IF WithHeader = {} THEN OpsContext = NoOpsValues
    ELSE LET first == CHOOSE i \in WithHeader : \A j \in WithHeader : i <= j IN
         /\ OpsContext.authorization_header = invocations[first].header
         /\ OpsContext.gateway_token = invocations[first].header
         /\ access_token # NoneStr => access_token = invocations[first].header

C28_Witness ==
    /\ Len(invocations) = 2
    /\ invocations[1].header = "Bearer A"
    /\ invocations[2].header = "Bearer B"
    /\ OpsContext.authorization_header = "Bearer A"
    /\ access_token = "Bearer A"

(***************************************************************************)
(* WrappedTool: parameters are bound once, stream passes the caller's      *)
(* input with the bound parameters to the delegate.                        *)
(***************************************************************************)
\* The properties of the delegate's tool spec.
ToolProperties == {"tenant_id", "sql"}

\* {**a, **b}
merge(a, b) == [n \in DOMAIN a |-> IF b[n] # Absent THEN b[n] ELSE a[n]]

\* stream's input as it would be if the caller's values came last.
stream_input_caller_last(tool_use_input, bound) == merge(bound, tool_use_input)

\* wrapped_tool.py line 57: {**tool_use["input"], **self._bound_params}
stream_input(tool_use_input, bound) == merge(tool_use_input, bound)

BindValues == {<<"tenant_id", "t1">>, <<"tenant_id", "t2">>, <<"sql", "q">>, <<"limit", "5">>}

\* The input the model puts into a tool use.
ToolUseInputs ==
    {i \in [ParamNames -> {Absent, "t1", "t2", "q"}] :
        /\ i["tenant_id"] \in {Absent, "t1", "t2"}
        /\ i["sql"] \in {Absent, "q"}
        /\ i["limit"] = Absent}

\* wrapped_tool.py lines 40-52.
BindParam(name, value) ==
    /\ IF bound_params[name] # Absent
       THEN /\ bind_result' = "ValueError: already bound"
            /\ UNCHANGED bound_params
       ELSE IF name \notin ToolProperties
       THEN /\ bind_result' = "ValueError: not found in tool spec"
            /\ UNCHANGED bound_params
       ELSE /\ bind_result' = "bound"
            /\ bound_params' = [bound_params EXCEPT ![name] = value]
    /\ UNCHANGED <<delegate_calls, authvars, sqlvars, tagvars, gwvars, opsvars>>

\* wrapped_tool.py lines 54-60.
Stream(tool_use_input) ==
    /\ Len(delegate_calls) < MaxStreams
    /\ delegate_calls' = Append(delegate_calls,
                                [caller |-> tool_use_input,
                                 input |-> stream_input(tool_use_input, bound_params)])
    /\ UNCHANGED <<bound_params, bind_result, authvars, sqlvars, tagvars, gwvars, opsvars>>

InitTool ==
    /\ ToolIdle
    /\ AuthIdle
    /\ SqlIdle
    /\ TagsIdle
    /\ GatewayIdle
    /\ OpsIdle

NextTool ==
    \/ \E b \in BindValues : BindParam(b[1], b[2])
    \/ \E i \in ToolUseInputs : Stream(i)

SpecTool == InitTool /\ [][NextTool]_vars

\* C29: once a parameter is bound its value is never replaced (a second
\* bind_param for it raises ValueError and leaves the bound parameters as
\* they are), and every stream call passes to the delegate an input that
\* holds the bound value for each bound name, whatever the caller put there.
C29_BoundValueWins ==
    [][/\ \A n \in ParamNames :
            bound_params[n] # Absent => bound_params'[n] = bound_params[n]
       /\ bind_result' = "ValueError: already bound" => bound_params' = bound_params
       /\ Len(delegate_calls') > Len(delegate_calls) =>
            \A n \in ParamNames :
                bound_params[n] # Absent =>
                    delegate_calls'[Len(delegate_calls')].input[n] = bound_params[n]]_vars

C29_Witness ==
    /\ bound_params["tenant_id"] = "t1"
    /\ bind_result = "ValueError: already bound"
    /\ \E i \in 1..Len(delegate_calls) :
          /\ delegate_calls[i].caller["tenant_id"] = "t2"
          /\ delegate_calls[i].input["tenant_id"] = "t1"

=============================================================================
